---- MODULE Spec2Model ----
(***************************************************************************)
(* Model of face_detection.py (FaceDetectionApp): the capture session, the *)
(* detection worker's frame loop (dedup, matcher, unknown-face enrollment),*)
(* the frame queue and its consumer, the clear-known-faces operation, and  *)
(* the start, stop and resolution controls and the two sliders run on the  *)
(* Tk thread beside the detection threads.                                 *)
(*                                                                         *)
(* Times are whole seconds.  Similarity scores are hundredths (0.65 is 65).*)
(* An image's pixel content is an identifier; the similarity of two        *)
(* contents is a fixed table (the result of cv2.matchTemplate).            *)
(***************************************************************************)
EXTENDS Integers, Sequences, FiniteSets, TLC

\* ------------------------------------------------------------- constants
\* Program constants (FaceDetectionApp.__init__ and literals of the code).
FRAME_QUEUE_MAXLEN == 5
DISTANCE_THRESHOLD == 50
DEFAULT_SAVE_INTERVAL == 3
BUFFER_SIZE == 3
PROCESS_INTERVAL == 5
MIN_RECOGNITION_SIZE == 100
DEFAULT_MATCH_THRESHOLD == 65
CLUSTER_THRESHOLD == 65
TEMPLATE_SIZE == 80
max_camera_errors == 5

\* Bounds of the model.
MaxFrames == 3
MaxFaces == 2
MaxQueueFrames == 7
MaxReadFails == 6
MaxEnrollFrames == 4
MaxMatchFrames == 2
MaxControlFrames == 1
MaxTrackFrames == 3

\* lines 138-144: two of the keys of self.resolutions, the first being
\* the resolution configured at construction.
DEFAULT_RESOLUTION == "640x480"
Resolutions == {"640x480", "1280x720"}

\* ------------------------------------------------------------------ data
\* A name is "Person_<num>" when prefix is "Person", and prefix otherwise.
PersonName(k) == [prefix |-> "Person", num |-> k]
PlainName(s) == [prefix |-> s, num |-> 0]
Unknown == PlainName("Unknown")

\* Image contents: 1 and 2 are two shots of one unknown person, 3 is
\* another unknown person, 4 is Alice's stored picture, 5 a live shot of
\* Alice, 6 a person enrolled in an earlier run.
Contents == {1, 2, 3, 4, 5, 6}

\* lines 896-897 and 1078-1079: cv2.matchTemplate(a, b, TM_CCOEFF_NORMED) on
\* two 80x80 images gives a single value, which minMaxLoc returns.
Score(a, b) ==
    IF a = b THEN 100
    ELSE IF {a, b} = {1, 2} THEN 80
    ELSE IF {a, b} = {4, 5} THEN 80
    ELSE IF {a, b} = {3, 4} THEN 65
    ELSE IF {a, b} = {1, 3} THEN -20
    ELSE 30

\* An image: its content and its shape (h, w).
Image(c, h, w) == [img |-> c, h |-> h, w |-> w]

\* cv2.resize(img, (80, 80)) (after the colour conversion, which keeps the
\* content): the content at the template's shape.
Resize80(im) == [img |-> im.img, h |-> TEMPLATE_SIZE, w |-> TEMPLATE_SIZE]

\* frame[y:y+h, x:x+w]: the crop of a detection.
Crop(d) == Image(d.img, d.h, d.w)

RECURSIVE SeqFilterOld_KeepsBoundary(_, _, _)
\* The sightings of an age equal to the interval kept too.
SeqFilterOld_KeepsBoundary(s, t, interval) ==
    IF s = <<>> THEN <<>>
    ELSE IF (t - Head(s)[3]) <= interval
         THEN <<Head(s)>> \o SeqFilterOld_KeepsBoundary(Tail(s), t, interval)
         ELSE SeqFilterOld_KeepsBoundary(Tail(s), t, interval)

RECURSIVE SeqFilterOld(_, _, _)
\* line 1007: the comprehension that keeps the sightings younger than
\* SAVE_INTERVAL.
SeqFilterOld(s, t, interval) ==
    IF s = <<>> THEN <<>>
    ELSE IF (t - Head(s)[3]) < interval
         THEN <<Head(s)>> \o SeqFilterOld(Tail(s), t, interval)
         ELSE SeqFilterOld(Tail(s), t, interval)

\* lines 855-856
Center(d) == <<d.x + (d.w \div 2), d.y + (d.h \div 2)>>

\* A distance equal to the threshold taken as below it.
DistanceBelow_AtMost(c, s, threshold) ==
    ((c[1] - s[1]) * (c[1] - s[1]) + (c[2] - s[2]) * (c[2] - s[2]))
        <= threshold * threshold

\* line 862, compared with the threshold at line 864: the distance is
\* below the threshold iff its square is below the threshold's square.
DistanceBelow(c, s, threshold) ==
    ((c[1] - s[1]) * (c[1] - s[1]) + (c[2] - s[2]) * (c[2] - s[2]))
        < threshold * threshold

\* The window one second short.
Suppresses_ShortWindow(c, t, s, interval) ==
    DistanceBelow(c, s, DISTANCE_THRESHOLD) /\ (t - s[3]) < interval - 1

\* line 864: one saved face suppresses the detection.

Suppresses(c, t, s, interval) ==
    DistanceBelow(c, s, DISTANCE_THRESHOLD) /\ (t - s[3]) < interval

\* lines 858-866: save_face after the scan of saved_faces.
ShouldSave(c, t, saved, interval) ==
    ~ \E i \in 1..Len(saved) : Suppresses(c, t, saved[i], interval)

\* ------------------------------------------------------------- matcher
RECURSIVE MatchFrom_LastWins(_, _, _, _, _, _)
\* The scan taking an entry that scores as high as the best so far.
MatchFrom_LastWins(i, roi, gallery, names, best_score, best_name) ==
    IF i > Len(gallery)
    THEN [raised |-> FALSE, score |-> best_score, name |-> best_name]
    ELSE IF Score(roi.img, gallery[i].img) >= best_score
         THEN IF i > Len(names)
              THEN [raised |-> TRUE, score |-> best_score, name |-> best_name]
              ELSE MatchFrom_LastWins(i + 1, roi, gallery, names,
                                      Score(roi.img, gallery[i].img), names[i])
         ELSE MatchFrom_LastWins(i + 1, roi, gallery, names, best_score, best_name)

RECURSIVE MatchFrom(_, _, _, _, _, _)
\* lines 895-901: the scan of the gallery from entry i on, with the best
\* score and name so far.  gallery is the list object the loop iterates,
\* names the name list as it is when the loop indexes it; indexing a name
\* that is not there raises IndexError.
MatchFrom(i, roi, gallery, names, best_score, best_name) ==
    IF i > Len(gallery)
    THEN [raised |-> FALSE, score |-> best_score, name |-> best_name]
    ELSE IF Score(roi.img, gallery[i].img) > best_score
         THEN IF i > Len(names)
              THEN [raised |-> TRUE, score |-> best_score, name |-> best_name]
              ELSE MatchFrom(i + 1, roi, gallery, names,
                             Score(roi.img, gallery[i].img), names[i])
         ELSE MatchFrom(i + 1, roi, gallery, names, best_score, best_name)

\* The name kept when the best score reaches the threshold.
MatchName_AtLeast(roi, gallery, names, threshold) ==
    LET r == MatchFrom(1, roi, gallery, names, 0, Unknown)
    IN  IF r.raised THEN [raised |-> TRUE, name |-> Unknown, score |-> r.score]
        ELSE [raised |-> FALSE,
              name |-> IF r.score >= threshold THEN r.name ELSE Unknown,
              score |-> r.score]

\* lines 892-904: best_match_score starts at 0 and best_match_name at
\* "Unknown"; the name is kept when the best score exceeds the threshold.
MatchName(roi, gallery, names, threshold) ==
    LET r == MatchFrom(1, roi, gallery, names, 0, Unknown)
    IN  IF r.raised THEN [raised |-> TRUE, name |-> Unknown, score |-> r.score]
        ELSE [raised |-> FALSE,
              name |-> IF r.score > threshold THEN r.name ELSE Unknown,
              score |-> r.score]

\* The matcher run on a box of any size.
Recognisable_AnySize(d, gallery) == Len(gallery) > 0

\* The test of the width alone.
Recognisable_WidthOnly(d, gallery) ==
    d.w >= MIN_RECOGNITION_SIZE /\ Len(gallery) > 0

\* line 888: the matcher runs only on a box of at least
\* MIN_RECOGNITION_SIZE in both dimensions, with a non-empty gallery.
Recognisable(d, gallery) ==
    d.w >= MIN_RECOGNITION_SIZE /\ d.h >= MIN_RECOGNITION_SIZE /\ Len(gallery) > 0

\* ---------------------------------------------------------- enrollment
\* line 1068
BufferTooSmall_Off(buffer) == Len(buffer) < BUFFER_SIZE - 1

BufferTooSmall(buffer) == Len(buffer) < BUFFER_SIZE

\* lines 1077-1084: the first group whose first member scores above the
\* clustering threshold against the face; 0 when there is none.
FirstFit(face, groups) ==
    LET hits == {i \in 1..Len(groups) :
                    Score(face.img, groups[i][1].img) > CLUSTER_THRESHOLD}
    IN  IF hits = {} THEN 0 ELSE CHOOSE i \in hits : \A j \in hits : i <= j

RECURSIVE ClusterFrom(_, _)
\* lines 1072-1087: the buffered crops in order, each made grey and
\* resized to 80x80, then joined to its first-fit group or made a group.
ClusterFrom(buffer, groups) ==
    IF buffer = <<>> THEN groups
    ELSE LET gray_face == Resize80(Head(buffer))
             g == FirstFit(gray_face, groups)
         IN  IF g = 0
             THEN ClusterFrom(Tail(buffer), Append(groups, <<gray_face>>))
             ELSE ClusterFrom(Tail(buffer),
                              [groups EXCEPT ![g] = Append(@, gray_face)])

\* lines 1071-1087
Cluster(buffer) == ClusterFrom(buffer, <<>>)

RECURSIVE BestFaceFrom(_, _, _)
\* lines 1094-1099: the scan for the face of the largest h * w, a later
\* face replacing the best only when strictly larger.
BestFaceFrom(group, best_size, best_face) ==
    IF group = <<>> THEN best_face
    ELSE LET size == Head(group).h * Head(group).w
         IN  IF size > best_size
             THEN BestFaceFrom(Tail(group), size, Head(group))
             ELSE BestFaceFrom(Tail(group), best_size, best_face)

\* lines 1091-1099: best_size starts at 0 (a group has at least one face,
\* of positive size, so best_face is set).
BestFace(group) == BestFaceFrom(group, 0, Head(group))

RECURSIVE BestFaces_Singletons(_)
\* One face per group, singletons included.
BestFaces_Singletons(groups) ==
    IF groups = <<>> THEN <<>>
    ELSE <<BestFace(Head(groups))>> \o BestFaces_Singletons(Tail(groups))

RECURSIVE BestFaces(_)
\* lines 1089-1102: the faces handed to add_new_person, one per group of
\* at least 2 members, in group order.
BestFaces(groups) ==
    IF groups = <<>> THEN <<>>
    ELSE IF Len(Head(groups)) >= 2
         THEN <<BestFace(Head(groups))>> \o BestFaces(Tail(groups))
         ELSE BestFaces(Tail(groups))

\* ------------------------------------------------------------- gallery
\* line 1107
NewName(id) == PersonName(id)

RECURSIVE NextIdFrom_Last(_, _)
\* The scan without the comparison: the last Person_ name decides.
NextIdFrom_Last(names, next_id) ==
    IF names = <<>> THEN next_id
    ELSE IF Head(names).prefix = "Person"
         THEN NextIdFrom_Last(Tail(names), Head(names).num + 1)
         ELSE NextIdFrom_Last(Tail(names), next_id)

RECURSIVE NextIdFrom(_, _)
\* lines 555-563: next_person_id after the scan of the loaded names.
NextIdFrom(names, next_id) ==
    IF names = <<>> THEN next_id
    ELSE IF Head(names).prefix = "Person" /\ Head(names).num >= next_id
         THEN NextIdFrom(Tail(names), Head(names).num + 1)
         ELSE NextIdFrom(Tail(names), next_id)

\* lines 542-553: one 80x80 template and one name per picture of the
\* directory (a picture holds one face), in listing order.
LoadedFaces(dir) == [i \in 1..Len(dir) |-> Resize80(Image(dir[i].img, 200, 200))]

LoadedNames(dir) == [i \in 1..Len(dir) |-> dir[i].name]

\* ---------------------------------------------------------------- state
VARIABLES
    running,               \* self.running
    cap,                   \* self.cap: "none" (None), "open" (an opened
                           \* VideoCapture), "failed" (one that is not opened)
    camera_error_count,    \* self.camera_error_count
    frame_queue,           \* self.frame_queue, a frame being its frame_count
    status_queue,          \* self.status_queue: the kinds of message waiting
    displayed,             \* the frame on video_label (0: none yet)
    saved_faces,           \* self.saved_faces: <<x, y, time>>
    SAVE_INTERVAL,         \* self.SAVE_INTERVAL
    MATCH_THRESHOLD,       \* self.MATCH_THRESHOLD
    known_faces,           \* self.known_faces
    known_face_names,      \* self.known_face_names
    next_person_id,        \* self.next_person_id
    known_dir,             \* the pictures in KNOWN_FACES_DIR
    unknown_faces_buffer,  \* self.unknown_faces_buffer
    last_process_time,     \* self.last_process_time
    attendance,            \* the rows appended to ATTENDANCE_FILE
    now,                   \* time.time()
    frame_count,           \* self.frame_count
    wpc,                   \* where the detection thread is ("dead": none runs)
    current_time,          \* detection_loop's current_time
    faces,                 \* the detections of the frame still to process
    save_face,             \* detection_loop's save_face
    gallery_iter,          \* the list object the matcher's loop iterates
    name,                  \* detection_loop's name
    enroll_queue,          \* process_unknown_faces: best faces still to add
    face_img,              \* add_new_person's face_img
    new_name,              \* add_new_person's new_name
    cap_configs,           \* the resolutions set on the handle in self.cap
    current_resolution,    \* self.current_resolution
    new_resolution,        \* change_resolution's new_resolution ("none":
                           \* the Tk thread is not in change_resolution)
    was_running,           \* change_resolution's was_running
    from_idle,             \* history: the start_detection under way set the
                           \* flag while no detection thread was alive
    w_res,                 \* detection_loop's width, height (lines 782, 800)
    opc,                   \* a second detection thread, between two
                           \* iterations ("top") or not there ("dead")
    cpc,                   \* where the Tk thread is in the callback it runs
    clears,                \* history: clear_known_faces calls begun
    read_fails,            \* history: failed reads since the last good read
    raised,                \* history: what raised the exception the detection
                           \* thread is handling ("none": nothing)
    log_errors,            \* the "Error logging attendance" lines printed
    last_call_time,        \* history: current_time at the last call of
                           \* process_unknown_faces (-1: none yet)
    interval_raised,       \* history: the slider has raised SAVE_INTERVAL
    recorded,              \* history: every sighting appended to saved_faces
    pass_buffer,           \* history: the buffer the running or last
                           \* enrollment pass started with
    pass_gallery,          \* history: known_faces when that pass started
    cleared,               \* history: a clear_known_faces call has returned
    post_clear,            \* history: the names appended to known_face_names
                           \* since the last return of clear_known_faces
    generated,             \* history: the names made by add_new_person since
                           \* construction or the last reset of next_person_id
    loaded                 \* history: the names load_known_faces read, until
                           \* the first reset of next_person_id

sessionVars == <<running, cap, camera_error_count, cap_configs>>
queueVars == <<frame_queue, displayed>>
trackVars == <<saved_faces, SAVE_INTERVAL, recorded, interval_raised>>
galleryVars == <<known_faces, known_face_names, next_person_id, known_dir, cleared,
                 post_clear, generated, loaded>>
enrollVars == <<unknown_faces_buffer, last_process_time, pass_buffer, pass_gallery,
                last_call_time>>
clockVars == <<now, frame_count, current_time>>
faceVars == <<faces, save_face, gallery_iter, name>>
addVars == <<enroll_queue, face_img, new_name>>
tkLocals == <<current_resolution, new_resolution, was_running, from_idle>>
controlVars == <<cpc, clears, tkLocals>>
threadVars == <<w_res, opc>>
histVars == <<read_fails, raised, log_errors>>

vars == <<sessionVars, queueVars, status_queue, trackVars, galleryVars, enrollVars,
          clockVars, faceVars, addVars, controlVars, threadVars, MATCH_THRESHOLD, attendance,
          wpc, histVars>>

NoImage == Image(0, 0, 0)

\* The state after FaceDetectionApp.__init__ (lines 108-159), the
\* known-faces directory holding the pictures dir.
InitWith(dir) ==
    /\ running = FALSE
    /\ cap = "none"
    /\ camera_error_count = 0
    /\ frame_queue = <<>>
    /\ status_queue = {}
    /\ displayed = 0
    /\ saved_faces = <<>>
    /\ SAVE_INTERVAL = DEFAULT_SAVE_INTERVAL
    /\ MATCH_THRESHOLD = DEFAULT_MATCH_THRESHOLD
    /\ known_dir = dir
    /\ known_faces = LoadedFaces(dir)
    /\ known_face_names = LoadedNames(dir)
    /\ next_person_id = NextIdFrom(LoadedNames(dir), 1)
    /\ unknown_faces_buffer = <<>>
    /\ last_process_time = 0
    /\ attendance = <<>>
    /\ now = 0
    /\ frame_count = 0
    /\ wpc = "dead"
    /\ current_time = 0
    /\ faces = <<>>
    /\ save_face = FALSE
    /\ gallery_iter = <<>>
    /\ name = Unknown
    /\ enroll_queue = <<>>
    /\ face_img = NoImage
    /\ new_name = Unknown
    /\ cap_configs = {}
    /\ current_resolution = DEFAULT_RESOLUTION
    /\ new_resolution = "none"
    /\ was_running = FALSE
    /\ from_idle = FALSE
    /\ w_res = "none"
    /\ opc = "dead"
    /\ cpc = "idle"
    /\ clears = 0
    /\ read_fails = 0
    /\ raised = "none"
    /\ log_errors = 0
    /\ last_call_time = -1
    /\ interval_raised = FALSE
    /\ recorded = <<>>
    /\ pass_buffer = <<>>
    /\ pass_gallery = <<>>
    /\ cleared = FALSE
    /\ post_clear = <<>>
    /\ generated = <<>>
    /\ loaded = LoadedNames(dir)

\* No setting made.
Configured_Nothing(configs, res) == configs

\* lines 585-587, 783-785 and 801-803: cap.set of the width, height and
\* frame rate: the settings made on a handle, res being one more.
Configured(configs, res) == configs \cup {res}

\* The handle kept.
Released_Not == UNCHANGED <<cap, cap_configs>>

\* stop_detection, lines 619-621: the handle, if there is one, is
\* released and self.cap is None.
Released ==
    /\ cap' = "none"
    /\ cap_configs' = {}

\* stop_detection, lines 608-621, as a detection thread runs it.
Stopped ==
    /\ running' = FALSE
    /\ Released

\* --------------------------------------------------- the detection thread
\* An environment E gives the outcomes the camera, the detectors and the
\* file and GUI calls may have: E.opens and E.reads (may the open or read
\* succeed, fail), E.dts (seconds between frames), E.frames (the detections
\* of a frame), E.locator and E.overlay (may the detector raise),
\* E.writes, E.guis and E.logs (outcomes of cv2.imwrite, of the Tk calls
\* and of the write of an attendance row),
\* E.max_frames (frames read in a run).

\* The loop going on whatever the flag.
LoopTop_IgnoresFlag ==
    /\ wpc = "top"
    /\ wpc' = "cam"
    /\ UNCHANGED <<sessionVars, queueVars, status_queue, trackVars, galleryVars,
                   enrollVars, clockVars, faceVars, addVars, controlVars, threadVars,
                   MATCH_THRESHOLD, attendance, histVars>>

\* line 766
LoopTop ==
    /\ wpc = "top"
    /\ wpc' = IF running THEN "cam" ELSE "dead"
    /\ UNCHANGED <<sessionVars, queueVars, status_queue, trackVars, galleryVars,
                   enrollVars, clockVars, faceVars, addVars, controlVars, threadVars,
                   MATCH_THRESHOLD, attendance, histVars>>

\* lines 774, 792 and 1027: the test made after each increment of the
\* error counter, one error too late.
TooManyErrors_Late(count) == count > max_camera_errors + 1

\* lines 774, 792 and 1027
TooManyErrors(count) == count > max_camera_errors

\* lines 768-779: the test of the handle and, on a handle that is None or
\* not opened, the reopen; a reopen that fails counts an error, stops the
\* session when the errors are too many, and otherwise sleeps 1 s and goes
\* back to the loop's test.
CheckCamera(E) ==
    /\ wpc = "cam"
    /\ IF cap = "open"
       THEN /\ wpc' = "read"
            /\ UNCHANGED <<sessionVars, status_queue>>
       ELSE \E ok \in E.opens :
              IF ok
              THEN /\ cap' = "open"
                   /\ cap_configs' = {}
                   /\ status_queue' = status_queue \cup {"reconnecting"}
                   /\ wpc' = "cam_res"
                   /\ UNCHANGED <<running, camera_error_count>>
              ELSE /\ camera_error_count' = camera_error_count + 1
                   /\ IF TooManyErrors(camera_error_count + 1)
                      THEN /\ status_queue' = status_queue \cup {"reconnecting", "camera_error"}
                           /\ Stopped
                           /\ wpc' = "dead"
                      ELSE /\ status_queue' = status_queue \cup {"reconnecting"}
                           /\ cap' = "failed"
                           /\ cap_configs' = {}
                           /\ wpc' = "top"
                           /\ UNCHANGED running
    /\ UNCHANGED <<queueVars, trackVars, galleryVars, enrollVars, clockVars, faceVars,
                   addVars, controlVars, threadVars, MATCH_THRESHOLD, attendance,
                   histVars>>

\* lines 782 and 800: the width and height of the configured resolution,
\* read after a reopen that worked.
CameraSettings ==
    /\ wpc \in {"cam_res", "rec_res"}
    /\ w_res' = current_resolution
    /\ wpc' = IF wpc = "cam_res" THEN "cam_set" ELSE "rec_set"
    /\ UNCHANGED <<sessionVars, queueVars, status_queue, trackVars, galleryVars,
                   enrollVars, clockVars, faceVars, addVars, controlVars, opc,
                   MATCH_THRESHOLD, attendance, histVars>>

\* lines 783-787 and 801-805: the width and height are set on the handle
\* self.cap holds now (None raises AttributeError, a handle that is not
\* opened takes no setting) and the error counter is reset.
CameraApply ==
    /\ wpc \in {"cam_set", "rec_set"}
    /\ IF cap = "none"
       THEN /\ wpc' = "exc"
            /\ raised' = "camera"
            /\ UNCHANGED <<sessionVars, status_queue>>
       ELSE /\ cap_configs' = IF cap = "open" THEN Configured(cap_configs, w_res)
                              ELSE cap_configs
            /\ camera_error_count' = 0
            /\ status_queue' = IF wpc = "cam_set"
                               THEN status_queue \cup {"reconnected"}
                               ELSE status_queue
            /\ wpc' = IF wpc = "cam_set" THEN "read" ELSE "top"
            /\ UNCHANGED <<running, cap, raised>>
    /\ UNCHANGED <<queueVars, trackVars, galleryVars, enrollVars, clockVars, faceVars,
                   addVars, controlVars, threadVars, MATCH_THRESHOLD, attendance,
                   read_fails, log_errors>>

\* The loop over the detections entered right after the locator.
AfterLocator_FacesFirst == "face"

\* lines 831-848: after detectMultiScale comes the periodic call of
\* process_unknown_faces (lines 838-841), before the loop over the
\* detections (line 848).
AfterLocator == "tick"

\* lines 789-795 (the read and a failed read) and 807-836 (a good read: the
\* counter reset, the time, the face locator).  self.cap.read() on None
\* raises AttributeError.
ReadFrame(E) ==
    /\ wpc = "read"
    /\ IF cap = "none"
       THEN /\ wpc' = "exc"
            /\ raised' = "camera"
            /\ UNCHANGED <<sessionVars, status_queue, clockVars, faces, read_fails>>
       ELSE \E ret \in (IF cap = "open" THEN E.reads ELSE {FALSE}) :
              IF ret
              THEN /\ frame_count < E.max_frames
                   /\ camera_error_count' = 0
                   /\ read_fails' = 0
                   /\ \E dt \in E.dts :
                        /\ now' = now + dt
                        /\ current_time' = now + dt
                   /\ frame_count' = frame_count + 1
                   /\ \E raises \in E.locator :
                        IF raises
                        THEN /\ wpc' = "exc"
                             /\ raised' = "locator"
                             /\ UNCHANGED faces
                        ELSE \E fs \in E.frames :
                               /\ faces' = fs
                               /\ wpc' = AfterLocator
                               /\ UNCHANGED raised
                   /\ UNCHANGED <<running, cap, cap_configs, status_queue>>
              ELSE /\ camera_error_count' = camera_error_count + 1
                   /\ read_fails' = IF read_fails < MaxReadFails
                                    THEN read_fails + 1 ELSE read_fails
                   /\ IF TooManyErrors(camera_error_count + 1)
                      THEN /\ status_queue' = status_queue \cup {"camera_error"}
                           /\ Stopped
                           /\ wpc' = "dead"
                      ELSE /\ wpc' = "reconnect"
                           /\ UNCHANGED <<running, cap, cap_configs, status_queue>>
                   /\ UNCHANGED <<clockVars, faces, raised>>
    /\ UNCHANGED <<queueVars, trackVars, galleryVars, enrollVars, save_face,
                   gallery_iter, name, addVars, controlVars, threadVars,
                   MATCH_THRESHOLD, attendance, log_errors>>

\* lines 796-799: release and reopen after a failed read.
\* self.cap.release() on None raises AttributeError.
Reconnect(E) ==
    /\ wpc = "reconnect"
    /\ IF cap = "none"
       THEN /\ wpc' = "exc"
            /\ raised' = "camera"
            /\ UNCHANGED sessionVars
       ELSE \E ok \in E.opens :
              /\ cap' = IF ok THEN "open" ELSE "failed"
              /\ cap_configs' = {}
              /\ wpc' = IF ok THEN "rec_res" ELSE "top"
              /\ UNCHANGED <<running, camera_error_count, raised>>
    /\ UNCHANGED <<queueVars, status_queue, trackVars, galleryVars, enrollVars,
                   clockVars, faceVars, addVars, controlVars, threadVars,
                   MATCH_THRESHOLD, attendance, read_fails, log_errors>>

\* lines 1024-1031
HandleException ==
    /\ wpc = "exc"
    /\ camera_error_count' = camera_error_count + 1
    /\ IF TooManyErrors(camera_error_count + 1)
       THEN /\ status_queue' = status_queue \cup {"loop_error", "too_many_errors"}
            /\ Stopped
            /\ wpc' = "dead"
       ELSE /\ status_queue' = status_queue \cup {"loop_error"}
            /\ wpc' = "top"
            /\ UNCHANGED <<running, cap, cap_configs>>
    /\ raised' = "none"
    /\ UNCHANGED <<queueVars, trackVars, galleryVars, enrollVars, clockVars, faceVars,
                   addVars, controlVars, threadVars, MATCH_THRESHOLD, attendance,
                   read_fails, log_errors>>

\* line 766, for the second detection thread: with the flag false it
\* ends; with the flag true it runs the next iteration, which the model
\* follows in wpc while the other thread, being between two iterations or
\* ended, is held in opc.
OtherLoopTop ==
    /\ opc = "top"
    /\ IF running
       THEN /\ wpc \in {"top", "dead"}
            /\ opc' = wpc
            /\ wpc' = "cam"
       ELSE /\ opc' = "dead"
            /\ UNCHANGED wpc
    /\ UNCHANGED <<sessionVars, queueVars, status_queue, trackVars, galleryVars,
                   enrollVars, clockVars, faceVars, addVars, controlVars, w_res,
                   MATCH_THRESHOLD, attendance, histVars>>

\* lines 838-841 and, in process_unknown_faces, 1067-1087: the periodic
\* call, its early return, and the clustering of the buffer.
EnrollTick ==
    /\ wpc = "tick"
    /\ IF current_time - last_process_time > PROCESS_INTERVAL
       THEN /\ last_call_time' = current_time
            /\ IF BufferTooSmall(unknown_faces_buffer)
               THEN /\ last_process_time' = current_time
                    /\ wpc' = "face"
                    /\ UNCHANGED <<enroll_queue, pass_buffer, pass_gallery>>
               ELSE /\ enroll_queue' = BestFaces(Cluster(unknown_faces_buffer))
                    /\ pass_buffer' = unknown_faces_buffer
                    /\ pass_gallery' = known_faces
                    /\ wpc' = "enroll"
                    /\ UNCHANGED last_process_time
       ELSE /\ wpc' = "face"
            /\ UNCHANGED <<enroll_queue, last_process_time, pass_buffer, pass_gallery,
                           last_call_time>>
    /\ UNCHANGED <<sessionVars, queueVars, status_queue, trackVars, galleryVars,
                   unknown_faces_buffer, clockVars, faceVars, face_img, new_name,
                   controlVars, threadVars, MATCH_THRESHOLD, attendance, histVars>>

\* lines 1089-1104 and 841: the next group's best face goes to
\* add_new_person; after the last one the buffer is cleared and the pass
\* is timestamped.
EnrollNext ==
    /\ wpc = "enroll"
    /\ IF enroll_queue = <<>>
       THEN /\ unknown_faces_buffer' = <<>>
            /\ last_process_time' = current_time
            /\ wpc' = "face"
            /\ UNCHANGED <<enroll_queue, face_img>>
       ELSE /\ face_img' = Head(enroll_queue)
            /\ enroll_queue' = Tail(enroll_queue)
            /\ wpc' = "anp_id"
            /\ UNCHANGED <<unknown_faces_buffer, last_process_time>>
    /\ UNCHANGED <<sessionVars, queueVars, status_queue, trackVars, galleryVars,
                   pass_buffer, pass_gallery, last_call_time, clockVars, faceVars,
                   new_name, controlVars, threadVars, MATCH_THRESHOLD, attendance,
                   histVars>>

\* add_new_person, lines 1107-1108
AddPersonId ==
    /\ wpc = "anp_id"
    /\ new_name' = NewName(next_person_id)
    /\ next_person_id' = next_person_id + 1
    /\ generated' = Append(generated, new_name')
    /\ wpc' = "anp_write"
    /\ UNCHANGED <<sessionVars, queueVars, status_queue, trackVars, known_faces,
                   known_face_names, known_dir, cleared, post_clear, loaded,
                   enrollVars, clockVars,
                   faceVars, enroll_queue, face_img, controlVars, threadVars, MATCH_THRESHOLD,
                   attendance, histVars>>

\* The result of cv2.imwrite tested, a picture not written being an error.
AfterWrite_Checked(out) == IF out = "ok" THEN "anp_face" ELSE "exc"

\* line 1112: the result of cv2.imwrite is not looked at; the call goes on
\* to line 1114 unless cv2.imwrite raised.
AfterWrite(out) == IF out = "raise" THEN "exc" ELSE "anp_face"

\* add_new_person, lines 1110-1112: cv2.imwrite writes the picture
\* ("ok"), returns False without writing ("fail"), or raises ("raise").
AddPersonWrite(E) ==
    /\ wpc = "anp_write"
    /\ \E out \in E.writes :
         /\ known_dir' = IF out = "ok"
                         THEN Append(known_dir, [name |-> new_name, img |-> face_img.img])
                         ELSE known_dir
         /\ wpc' = AfterWrite(out)
         /\ raised' = IF AfterWrite(out) = "exc" THEN "write" ELSE raised
    /\ UNCHANGED <<sessionVars, queueVars, status_queue, trackVars, known_faces,
                   known_face_names, next_person_id, cleared, post_clear, generated, loaded,
                   enrollVars,
                   clockVars, faceVars, addVars, controlVars, threadVars, MATCH_THRESHOLD,
                   attendance, read_fails, log_errors>>

\* add_new_person, lines 1114-1116
AddPersonFace ==
    /\ wpc = "anp_face"
    /\ known_faces' = Append(known_faces, Resize80(face_img))
    /\ wpc' = "anp_name"
    /\ UNCHANGED <<sessionVars, queueVars, status_queue, trackVars, known_face_names,
                   next_person_id, known_dir, cleared, post_clear, generated, loaded,
                   enrollVars, clockVars,
                   faceVars, addVars, controlVars, threadVars, MATCH_THRESHOLD, attendance,
                   histVars>>

\* add_new_person, line 1117
AddPersonName ==
    /\ wpc = "anp_name"
    /\ known_face_names' = Append(known_face_names, new_name)
    /\ post_clear' = Append(post_clear, new_name)
    /\ wpc' = "anp_gui"
    /\ UNCHANGED <<sessionVars, queueVars, status_queue, trackVars, known_faces,
                   next_person_id, known_dir, cleared, generated, loaded,
                   enrollVars, clockVars,
                   faceVars, addVars, controlVars, threadVars, MATCH_THRESHOLD, attendance,
                   histVars>>

\* add_new_person, lines 1119-1124: the Tk calls made on the detection
\* thread either work ("ok") or raise ("raise", at the first of them).
AddPersonGui(E) ==
    /\ wpc = "anp_gui"
    /\ \E out \in E.guis :
         IF out = "ok"
         THEN /\ status_queue' = status_queue \cup {"added_person"}
              /\ wpc' = "enroll"
         ELSE /\ wpc' = "exc"
              /\ UNCHANGED status_queue
    /\ raised' = IF wpc' = "exc" THEN "gui" ELSE raised
    /\ UNCHANGED <<sessionVars, queueVars, trackVars, galleryVars, enrollVars,
                   clockVars, faceVars, addVars, controlVars, threadVars, MATCH_THRESHOLD,
                   attendance, read_fails, log_errors>>

\* lines 848-866 and 884-895: the next detection of the frame, its dedup
\* decision, and the start of the matcher's loop over self.known_faces.
FaceBegin ==
    /\ wpc = "face"
    /\ IF faces = <<>>
       THEN /\ wpc' = "end"
            /\ UNCHANGED <<save_face, gallery_iter, name>>
       ELSE /\ save_face' = ShouldSave(Center(Head(faces)), current_time,
                                       saved_faces, SAVE_INTERVAL)
            /\ name' = Unknown
            /\ IF Recognisable(Head(faces), known_faces)
               THEN gallery_iter' = known_faces /\ wpc' = "match"
               ELSE wpc' = "act" /\ UNCHANGED gallery_iter
    /\ UNCHANGED <<sessionVars, queueVars, status_queue, trackVars, galleryVars,
                   enrollVars, clockVars, faces, addVars, controlVars, threadVars,
                   MATCH_THRESHOLD, attendance, histVars>>

\* lines 889-904: the scan of the gallery.
FaceMatch ==
    /\ wpc = "match"
    /\ LET r == MatchName(Resize80(Crop(Head(faces))), gallery_iter,
                          known_face_names, MATCH_THRESHOLD)
       IN  IF r.raised
           THEN wpc' = "exc" /\ raised' = "names" /\ UNCHANGED name
           ELSE wpc' = "act" /\ name' = r.name /\ UNCHANGED raised
    /\ UNCHANGED <<sessionVars, queueVars, status_queue, trackVars, galleryVars,
                   enrollVars, clockVars, faces, save_face, gallery_iter, addVars,
                   controlVars, threadVars, MATCH_THRESHOLD, attendance, read_fails,
                   log_errors>>

\* line 982 and line 996
RecordSighting(d) ==
    /\ saved_faces' = Append(saved_faces, <<Center(d)[1], Center(d)[2], current_time>>)
    /\ recorded' = Append(recorded, <<Center(d)[1], Center(d)[2], current_time>>)

\* Every Unknown detection buffered, the gate forgotten.
BuffersCrop_NoGate(save, nm) == nm = Unknown

\* lines 979-981: the crop is buffered in the first branch alone.
BuffersCrop(save, nm) == save /\ nm = Unknown

\* Every recognised detection logged, the gate forgotten.
LogsAttendance_NoGate(save, nm) == nm # Unknown

\* lines 979-1000: log_attendance is called at line 986 or at line 1000,
\* in the branch taken by a detection that passed the gate (the first when
\* the name is "Unknown", the second otherwise), when the name is not
\* "Unknown".
LogsAttendance(save, nm) ==
    \/ (save /\ nm = Unknown) /\ nm # Unknown
    \/ (~(save /\ nm = Unknown) /\ save) /\ nm # Unknown

\* log_attendance, lines 1033-1040: the row is appended ("ok"), or opening
\* or writing the file raises ("fail"), which is caught and printed; "none"
\* when the call is not made.
LogAttendance(out) ==
    /\ attendance' = IF out = "ok" THEN Append(attendance, name) ELSE attendance
    /\ log_errors' = IF out = "fail" THEN log_errors + 1 ELSE log_errors

\* lines 907-965 (the eye and smile detectors of a large enough box, which
\* may raise) and 978-1004 (what is done with the detection).
FaceAct(E) ==
    /\ wpc = "act"
    /\ LET d == Head(faces)
           large == d.w >= MIN_RECOGNITION_SIZE /\ d.h >= MIN_RECOGNITION_SIZE
       IN  \E raises \in (IF large THEN E.overlay ELSE {FALSE}) :
             IF raises
             THEN /\ wpc' = "exc"
                  /\ raised' = "overlay"
                  /\ UNCHANGED <<saved_faces, recorded, unknown_faces_buffer,
                                 attendance, log_errors, faces>>
             ELSE /\ unknown_faces_buffer' =
                        IF BuffersCrop(save_face, name)
                        THEN Append(unknown_faces_buffer, Crop(d))
                        ELSE unknown_faces_buffer
                  /\ IF save_face
                     THEN RecordSighting(d)
                     ELSE UNCHANGED <<saved_faces, recorded>>
                  /\ \E out \in (IF LogsAttendance(save_face, name)
                                  THEN E.logs ELSE {"none"}) : LogAttendance(out)
                  /\ faces' = Tail(faces)
                  /\ wpc' = "face"
                  /\ UNCHANGED raised
    /\ UNCHANGED <<sessionVars, queueVars, status_queue, SAVE_INTERVAL,
                   interval_raised, galleryVars, last_process_time, pass_buffer, pass_gallery, last_call_time,
                   clockVars, save_face, gallery_iter, name, addVars, controlVars,
                   threadVars, MATCH_THRESHOLD, read_fails>>

\* list.append: no guard and no maxlen.
PutFrame_Unbounded(queue, frame) == Append(queue, frame)

\* deque.append on a deque(maxlen=5) without the guard of line 1011.
PutFrame_Overwrite(queue, frame) ==
    IF Len(queue) < FRAME_QUEUE_MAXLEN
    THEN Append(queue, frame)
    ELSE Append(Tail(queue), frame)

\* lines 1011-1012
PutFrame(queue, frame) ==
    IF Len(queue) < FRAME_QUEUE_MAXLEN
    THEN Append(queue, frame)
    ELSE queue

\* lines 1006-1022: the prune of saved_faces and the frame put in the queue
\* when the queue is not full.
EndFrame ==
    /\ wpc = "end"
    /\ saved_faces' = SeqFilterOld(saved_faces, current_time, SAVE_INTERVAL)
    /\ frame_queue' = PutFrame(frame_queue, frame_count)
    /\ wpc' = "top"
    /\ UNCHANGED <<sessionVars, displayed, status_queue, SAVE_INTERVAL, recorded,
                   interval_raised,
                   galleryVars, enrollVars, clockVars, faceVars, addVars,
                   controlVars, threadVars, MATCH_THRESHOLD, attendance, histVars>>

\* ------------------------------------------------------- the Tk thread
\* The Tk thread runs one callback at a time: cpc is "idle" between two
\* callbacks.  A callback is cut into steps where it reads or writes what
\* a detection thread reads or writes.

\* Where start_detection returns to: the Tk main loop, or line 533 of
\* change_resolution.
StartReturn == IF new_resolution = "none" THEN "idle" ELSE "chg_done"

\* An exception raised in a callback ends the callback.
TkRaise ==
    /\ cpc' = "idle"
    /\ new_resolution' = "none"
    /\ was_running' = FALSE
    /\ UNCHANGED <<current_resolution, from_idle>>

\* start_detection, lines 569-577, called by the start button or by
\* change_resolution (line 532): nothing is done when running; otherwise
\* the flag is set and the camera opened.
StartBegin(E) ==
    /\ cpc \in {"idle", "start"}
    /\ IF running
       THEN /\ cpc' = StartReturn
            /\ UNCHANGED <<sessionVars, from_idle>>
       ELSE /\ running' = TRUE
            /\ \E ok \in E.opens : cap' = IF ok THEN "open" ELSE "failed"
            /\ cap_configs' = {}
            /\ from_idle' = (wpc = "dead" /\ opc = "dead")
            /\ cpc' = "start_check"
            /\ UNCHANGED camera_error_count
    /\ UNCHANGED <<queueVars, status_queue, trackVars, galleryVars, enrollVars,
                   clockVars, faceVars, addVars, clears, current_resolution,
                   new_resolution, was_running, threadVars, MATCH_THRESHOLD,
                   attendance, wpc, histVars>>

\* start_detection, lines 578-581: a handle that is not opened gives the
\* error message and the call of stop_detection, whose line 609 is taken
\* here and lines 619-621 in StopRelease.  self.cap.isOpened() on None
\* raises AttributeError.
StartCheck ==
    /\ cpc = "start_check"
    /\ IF cap = "none"
       THEN /\ TkRaise
            /\ UNCHANGED <<running, status_queue>>
       ELSE IF cap = "failed"
       THEN /\ status_queue' = status_queue \cup {"open_error"}
            /\ running' = FALSE
            /\ cpc' = "start_release"
            /\ UNCHANGED tkLocals
       ELSE /\ cpc' = "start_set"
            /\ UNCHANGED <<running, status_queue, tkLocals>>
    /\ UNCHANGED <<cap, camera_error_count, cap_configs, queueVars, trackVars,
                   galleryVars, enrollVars, clockVars, faceVars, addVars, clears,
                   threadVars, MATCH_THRESHOLD, attendance, wpc, histVars>>

\* start_detection, lines 584-594: the configured resolution is set on the
\* handle self.cap holds now.
StartSet ==
    /\ cpc = "start_set"
    /\ IF cap = "none"
       THEN /\ TkRaise
            /\ UNCHANGED cap_configs
       ELSE /\ cap_configs' = IF cap = "open"
                              THEN Configured(cap_configs, current_resolution)
                              ELSE cap_configs
            /\ cpc' = "start_thread"
            /\ UNCHANGED tkLocals
    /\ UNCHANGED <<running, cap, camera_error_count, queueVars, status_queue,
                   trackVars, galleryVars, enrollVars, clockVars, faceVars, addVars,
                   clears, threadVars, MATCH_THRESHOLD, attendance, wpc, histVars>>

\* start_detection, lines 597-606: the error counter is reset and a new
\* detection thread started.  A thread of an earlier session that has not
\* ended stays: the model holds it when it is between two iterations.
StartThread ==
    /\ cpc = "start_thread"
    /\ \/ wpc = "dead" /\ wpc' = "top" /\ UNCHANGED opc
       \/ wpc = "top" /\ opc = "dead" /\ opc' = "top" /\ UNCHANGED wpc
    /\ camera_error_count' = 0
    /\ read_fails' = 0
    /\ cpc' = StartReturn
    /\ UNCHANGED <<running, cap, cap_configs, queueVars, status_queue, trackVars,
                   galleryVars, enrollVars, clockVars, faceVars, addVars, clears,
                   tkLocals, w_res, MATCH_THRESHOLD, attendance, raised,
                   log_errors>>

\* start_detection, lines 568-606
StartDetection(E) ==
    \/ StartBegin(E)
    \/ StartCheck
    \/ StartSet
    \/ StartThread

\* stop_detection called by the stop button, lines 608-617: the flag.
StopDetection ==
    /\ cpc = "idle"
    /\ running' = FALSE
    /\ cpc' = "stop_release"
    /\ UNCHANGED <<cap, camera_error_count, cap_configs, queueVars, status_queue,
                   trackVars, galleryVars, enrollVars, clockVars, faceVars, addVars,
                   clears, tkLocals, threadVars, MATCH_THRESHOLD, attendance, wpc,
                   histVars>>

\* stop_detection, lines 619-621, as called by the stop button, by
\* start_detection (line 580) or by change_resolution (line 523, with the
\* sleep of line 525 after it): the handle, if there is one, is released.
StopRelease ==
    /\ cpc \in {"stop_release", "start_release", "chg_release"}
    /\ Released
    /\ cpc' = IF cpc = "stop_release" THEN "idle"
              ELSE IF cpc = "start_release" THEN StartReturn
              ELSE "chg_store"
    /\ UNCHANGED <<running, camera_error_count, queueVars, status_queue, trackVars,
                   galleryVars, enrollVars, clockVars, faceVars, addVars, clears,
                   tkLocals, threadVars, MATCH_THRESHOLD, attendance, wpc,
                   histVars>>

\* change_resolution, lines 514-523: the resolution chosen; when it is a
\* new one, was_running, and the flag of stop_detection (line 609) when
\* running.
ChangeBegin ==
    /\ cpc = "idle"
    /\ \E r \in Resolutions :
         IF r = current_resolution
         THEN UNCHANGED <<running, cpc, tkLocals>>
         ELSE /\ new_resolution' = r
              /\ was_running' = running
              /\ running' = FALSE
              /\ cpc' = IF running THEN "chg_release" ELSE "chg_store"
              /\ UNCHANGED <<current_resolution, from_idle>>
    /\ UNCHANGED <<cap, camera_error_count, cap_configs, queueVars, status_queue,
                   trackVars, galleryVars, enrollVars, clockVars, faceVars, addVars,
                   clears, threadVars, MATCH_THRESHOLD, attendance, wpc, histVars>>

\* change_resolution, lines 528-532: the configuration changes, and
\* start_detection is called when the session was running.
ChangeStore ==
    /\ cpc = "chg_store"
    /\ current_resolution' = new_resolution
    /\ cpc' = IF was_running THEN "start" ELSE "chg_done"
    /\ UNCHANGED <<sessionVars, queueVars, status_queue, trackVars, galleryVars,
                   enrollVars, clockVars, faceVars, addVars, clears, new_resolution,
                   was_running, from_idle, threadVars, MATCH_THRESHOLD, attendance,
                   wpc, histVars>>

\* change_resolution, line 535
ChangeDone ==
    /\ cpc = "chg_done"
    /\ status_queue' = status_queue \cup {"resolution_changed"}
    /\ new_resolution' = "none"
    /\ was_running' = FALSE
    /\ cpc' = "idle"
    /\ UNCHANGED <<sessionVars, queueVars, trackVars, galleryVars, enrollVars,
                   clockVars, faceVars, addVars, clears, current_resolution,
                   from_idle, threadVars, MATCH_THRESHOLD, attendance, wpc,
                   histVars>>

\* change_resolution, lines 512-535
ChangeResolution ==
    \/ ChangeBegin
    \/ ChangeStore
    \/ ChangeDone

\* update_save_interval, lines 506-507: the slider's value.
UpdateSaveInterval(values) ==
    /\ cpc = "idle"
    /\ \E v \in values :
         /\ SAVE_INTERVAL' = v
         /\ interval_raised' = (interval_raised \/ v > SAVE_INTERVAL)
    /\ UNCHANGED <<sessionVars, queueVars, status_queue, saved_faces, recorded,
                   galleryVars, enrollVars, clockVars, faceVars, addVars, controlVars,
                   threadVars, MATCH_THRESHOLD, attendance, wpc, histVars>>

\* update_match_threshold, lines 509-510: the slider's value.
UpdateMatchThreshold(values) ==
    /\ cpc = "idle"
    /\ \E v \in values : MATCH_THRESHOLD' = v
    /\ UNCHANGED <<sessionVars, queueVars, status_queue, trackVars, galleryVars,
                   enrollVars, clockVars, faceVars, addVars, controlVars, threadVars,
                   attendance, wpc, histVars>>

\* clear_known_faces once confirmed, lines 627-631: the files are deleted.
ClearFiles(E) ==
    /\ cpc = "idle"
    /\ clears < E.max_clears
    /\ clears' = clears + 1
    /\ known_dir' = <<>>
    /\ cpc' = "clear_faces"
    /\ UNCHANGED <<sessionVars, queueVars, status_queue, trackVars, known_faces,
                   known_face_names, next_person_id, cleared, post_clear, generated, loaded,
                   enrollVars,
                   clockVars, faceVars, addVars, tkLocals, threadVars, MATCH_THRESHOLD,
                   attendance, wpc, histVars>>

\* clear_known_faces, line 634
ClearFaces ==
    /\ cpc = "clear_faces"
    /\ known_faces' = <<>>
    /\ cpc' = "clear_names"
    /\ UNCHANGED <<sessionVars, queueVars, status_queue, trackVars, known_face_names,
                   next_person_id, known_dir, cleared, post_clear, generated, loaded,
                   enrollVars, clockVars,
                   faceVars, addVars, clears, tkLocals, threadVars, MATCH_THRESHOLD,
                   attendance, wpc, histVars>>

\* clear_known_faces, line 635
ClearNames ==
    /\ cpc = "clear_names"
    /\ known_face_names' = <<>>
    /\ cpc' = "clear_id"
    /\ UNCHANGED <<sessionVars, queueVars, status_queue, trackVars, known_faces,
                   next_person_id, known_dir, cleared, post_clear, generated, loaded,
                   enrollVars, clockVars,
                   faceVars, addVars, clears, tkLocals, threadVars, MATCH_THRESHOLD,
                   attendance, wpc, histVars>>

\* clear_known_faces, lines 636-640: the counter reset, the label and the
\* status message; the call returns.
ClearId ==
    /\ cpc = "clear_id"
    /\ next_person_id' = 1
    /\ status_queue' = status_queue \cup {"cleared"}
    /\ cleared' = TRUE
    /\ post_clear' = <<>>
    /\ generated' = <<>>
    /\ loaded' = <<>>
    /\ cpc' = "idle"
    /\ UNCHANGED <<sessionVars, queueVars, trackVars, known_faces, known_face_names,
                   known_dir, enrollVars, clockVars, faceVars, addVars, clears,
                   tkLocals, threadVars, MATCH_THRESHOLD, attendance, wpc,
                   histVars>>

\* deque.pop(): the newest frame.
TakeFrame_Newest(queue) ==
    [frame |-> queue[Len(queue)], rest |-> SubSeq(queue, 1, Len(queue) - 1)]

\* line 1145: deque.popleft()
TakeFrame(queue) ==
    [frame |-> Head(queue), rest |-> Tail(queue)]

\* update_gui, lines 1141-1167: one poll of the frame queue and the status
\* queue.
UpdateGui ==
    /\ IF frame_queue # <<>>
       THEN /\ displayed' = TakeFrame(frame_queue).frame
            /\ frame_queue' = TakeFrame(frame_queue).rest
       ELSE UNCHANGED <<displayed, frame_queue>>
    /\ status_queue' = {}
    /\ UNCHANGED <<sessionVars, trackVars, galleryVars, enrollVars, clockVars,
                   faceVars, addVars, controlVars, threadVars, MATCH_THRESHOLD, attendance, wpc,
                   histVars>>

\* ------------------------------------------------------------ the inputs
\* Detections (boxes scaled back to the frame, lines 850-853, with the
\* content of the box).  Centres: dA (100, 100), dA2 (130, 110), dB
\* (150, 100), dS (340, 80), dK (560, 100); dA2 is within the distance
\* threshold of dA and of dB, dB is exactly 50 px from dA; dS is below
\* MIN_RECOGNITION_SIZE.
Detection(x, y, size, c) == [x |-> x, y |-> y, w |-> size, h |-> size, img |-> c]
dA == Detection(40, 40, 120, 1)
dA2 == Detection(60, 40, 140, 2)
dB == Detection(90, 40, 120, 3)
dS == Detection(300, 40, 80, 2)
dK == Detection(500, 40, 120, 5)

DetectionPool == {dA, dA2, dB, dS, dK}

\* The frames of at most n distinct detections of the pool.
FramesUpTo(n) ==
    {fs \in UNION {[1..k -> DetectionPool] : k \in 0..n} :
        \A i, j \in DOMAIN fs : i # j => fs[i] # fs[j]}

\* Boxes that are large in one dimension only, with a live shot of Alice.
dW == [x |-> 500, y |-> 40, w |-> 120, h |-> 80, img |-> 5]
dH == [x |-> 500, y |-> 40, w |-> 80, h |-> 120, img |-> 5]

Alice == [name |-> PlainName("Alice"), img |-> 4]
Bob == [name |-> PlainName("Bob"), img |-> 4]
Person2 == [name |-> PersonName(2), img |-> 6]
Person5 == [name |-> PersonName(5), img |-> 6]

\* A second shot of the person of dB, elsewhere in the frame.
dB2 == Detection(200, 40, 120, 3)

\* The known-faces directories the program is started on.
Dirs == {<<>>, <<Alice>>, <<Person2>>, <<Person5, Alice, Person2>>}

MaxClears == 1

EnvSession ==
    [opens |-> BOOLEAN, reads |-> BOOLEAN, dts |-> {1}, frames |-> {<<>>},
     locator |-> BOOLEAN, overlay |-> {FALSE}, writes |-> {"ok"}, guis |-> {"ok"}, logs |-> {"ok"},
     max_frames |-> MaxFrames, max_clears |-> 0]

EnvPipeline ==
    [opens |-> {TRUE}, reads |-> {TRUE}, dts |-> {2, 3, 6},
     frames |-> FramesUpTo(MaxFaces),
     locator |-> {FALSE}, overlay |-> {FALSE},
     writes |-> {"ok", "fail"}, guis |-> {"ok"}, logs |-> {"ok"},
     max_frames |-> MaxFrames, max_clears |-> 0]

EnvEnroll ==
    [opens |-> {TRUE}, reads |-> {TRUE}, dts |-> {3, 6},
     frames |-> {<<>>, <<dA, dB>>, <<dA2>>, <<dS, dK>>},
     locator |-> {FALSE}, overlay |-> {FALSE},
     writes |-> {"ok", "fail", "raise"}, guis |-> {"ok", "raise"}, logs |-> {"ok"},
     max_frames |-> MaxEnrollFrames, max_clears |-> 0]

\* The values the match-threshold slider is moved to (lines 346-347: from
\* 0.5 to 0.9 in steps of 0.05).
Thresholds == {65, 85}

EnvMatcher ==
    [opens |-> {TRUE}, reads |-> {TRUE}, dts |-> {3},
     frames |-> {<<dK>>, <<dW>>, <<dH>>, <<dS>>, <<dB>>, <<dA>>},
     locator |-> {FALSE}, overlay |-> {FALSE}, writes |-> {"ok"}, guis |-> {"ok"}, logs |-> {"ok"},
     max_frames |-> MaxMatchFrames, max_clears |-> 0]

\* The values the save-interval slider is moved to (lines 334-339: from 1
\* to 10).
SaveIntervals == {1, 4}

EnvTrack ==
    [opens |-> {TRUE}, reads |-> {TRUE}, dts |-> {1, 3},
     frames |-> {<<dA, dB>>, <<dA2>>, <<dK>>, <<dS>>},
     locator |-> {FALSE}, overlay |-> BOOLEAN,
     writes |-> {"ok", "fail"}, guis |-> {"ok"}, logs |-> {"ok", "fail"},
     max_frames |-> MaxTrackFrames, max_clears |-> 0]

EnvControl ==
    [opens |-> BOOLEAN, reads |-> BOOLEAN, dts |-> {1}, frames |-> {<<>>},
     locator |-> {FALSE}, overlay |-> {FALSE}, writes |-> {"ok"}, guis |-> {"ok"}, logs |-> {"ok"},
     max_frames |-> MaxControlFrames, max_clears |-> 0]

EnvQueue ==
    [opens |-> {TRUE}, reads |-> {TRUE}, dts |-> {1}, frames |-> {<<>>},
     locator |-> {FALSE}, overlay |-> {FALSE}, writes |-> {"ok"}, guis |-> {"ok"}, logs |-> {"ok"},
     max_frames |-> MaxQueueFrames, max_clears |-> 0]

EnvGallery ==
    [opens |-> {TRUE}, reads |-> {TRUE}, dts |-> {3},
     frames |-> {<<dA, dS, dB>>, <<dK>>},
     locator |-> {FALSE}, overlay |-> {FALSE}, writes |-> {"ok"}, guis |-> {"ok"}, logs |-> {"ok"},
     max_frames |-> MaxFrames, max_clears |-> MaxClears]

\* Four unknown faces in view, two shots each of two persons.
EnvNames ==
    [opens |-> {TRUE}, reads |-> {TRUE}, dts |-> {3},
     frames |-> {<<dA, dS, dB, dB2>>},
     locator |-> {FALSE}, overlay |-> {FALSE}, writes |-> {"ok"}, guis |-> {"ok"}, logs |-> {"ok"},
     max_frames |-> MaxFrames, max_clears |-> MaxClears]

\* -------------------------------------------------------- specifications
WorkerLoop(E) ==
    \/ LoopTop
    \/ CheckCamera(E)
    \/ ReadFrame(E)
    \/ EnrollTick
    \/ FaceBegin
    \/ EndFrame

WorkerReopen(E) ==
    \/ Reconnect(E)
    \/ CameraSettings
    \/ CameraApply

WorkerFaces(E) ==
    \/ FaceMatch
    \/ FaceAct(E)

WorkerEnroll(E) ==
    \/ EnrollNext
    \/ AddPersonId
    \/ AddPersonWrite(E)
    \/ AddPersonFace
    \/ AddPersonName
    \/ AddPersonGui(E)

ClearKnownFaces(E) ==
    \/ ClearFiles(E)
    \/ ClearFaces
    \/ ClearNames
    \/ ClearId

\* The capture session: start, stop, and the worker on a camera that may
\* fail to open and to read, with no face in view.
InitSession == InitWith(<<>>)

NextSession ==
    \/ StartDetection(EnvSession)
    \/ StopDetection
    \/ StopRelease
    \/ WorkerLoop(EnvSession)
    \/ WorkerReopen(EnvSession)
    \/ HandleException
    \/ OtherLoopTop

SpecSession == InitSession /\ [][NextSession]_vars

\* The pipeline of one session on a working camera: dedup, matcher,
\* enrollment.
InitPipeline == InitWith(<<Alice>>)

NextPipeline ==
    \/ StartDetection(EnvPipeline)
    \/ WorkerLoop(EnvPipeline)
    \/ WorkerFaces(EnvPipeline)
    \/ WorkerEnroll(EnvPipeline)

SpecPipeline == InitPipeline /\ [][NextPipeline]_vars

\* Enrollment passes whose add_new_person may fail.
InitEnroll == InitWith(<<>>)

NextEnroll ==
    \/ StartDetection(EnvEnroll)
    \/ WorkerLoop(EnvEnroll)
    \/ WorkerFaces(EnvEnroll)
    \/ WorkerEnroll(EnvEnroll)
    \/ HandleException

SpecEnroll == InitEnroll /\ [][NextEnroll]_vars

\* The controls of the session: the start and stop buttons and the
\* resolution buttons on the Tk thread, beside the detection threads.
InitControl == InitWith(<<>>)

WorkerStep(E) ==
    \/ WorkerLoop(E)
    \/ WorkerReopen(E)
    \/ HandleException

NextControl ==
    \/ StartDetection(EnvControl)
    \/ StopDetection
    \/ StopRelease
    \/ ChangeResolution
    \/ WorkerStep(EnvControl)
    \/ OtherLoopTop

SpecControl == InitControl /\ [][NextControl]_vars

\* Cancellation: the start and stop buttons beside detection threads that
\* are scheduled fairly (a thread that can take a step takes one in the
\* end: the sleeps and the camera calls return).
InitCancel == InitWith(<<>>)

NextCancel ==
    \/ StartDetection(EnvControl)
    \/ StopDetection
    \/ StopRelease
    \/ WorkerStep(EnvControl)
    \/ OtherLoopTop

SpecCancel ==
    /\ InitCancel
    /\ [][NextCancel]_vars
    /\ WF_vars(WorkerStep(EnvControl))
    /\ WF_vars(OtherLoopTop)

\* The matcher: one detection a frame, on galleries of 0, 1 and 2
\* identities, the match threshold being moved between 0.65 and 0.85.
InitMatcher ==
    \E dir \in {<<>>, <<Alice>>, <<Person2, Alice>>, <<Alice, Bob>>} : InitWith(dir)

NextMatcher ==
    \/ StartDetection(EnvMatcher)
    \/ WorkerLoop(EnvMatcher)
    \/ WorkerFaces(EnvMatcher)
    \/ UpdateMatchThreshold(Thresholds)

SpecMatcher == InitMatcher /\ [][NextMatcher]_vars

\* The detections of a session on a working camera, acted on, logged and
\* buffered, while the save-interval slider is moved and the eye and smile
\* detectors, the picture writes and the attendance writes may fail.
InitTrack == InitWith(<<Alice>>)

NextTrack ==
    \/ StartDetection(EnvTrack)
    \/ WorkerLoop(EnvTrack)
    \/ WorkerFaces(EnvTrack)
    \/ WorkerEnroll(EnvTrack)
    \/ HandleException
    \/ UpdateSaveInterval(SaveIntervals)

SpecTrack == InitTrack /\ [][NextTrack]_vars

\* The frame queue: the worker producing frames and update_gui polling.
InitQueue == InitWith(<<>>)

NextQueue ==
    \/ StartDetection(EnvQueue)
    \/ WorkerLoop(EnvQueue)
    \/ UpdateGui

SpecQueue == InitQueue /\ [][NextQueue]_vars

\* The gallery: the worker's pipeline with clear_known_faces running on
\* the Tk thread.
InitGallery == InitWith(<<Person2>>)

NextGallery ==
    \/ StartDetection(EnvGallery)
    \/ WorkerLoop(EnvGallery)
    \/ WorkerFaces(EnvGallery)
    \/ WorkerEnroll(EnvGallery)
    \/ HandleException
    \/ ClearKnownFaces(EnvGallery)

SpecGallery == InitGallery /\ [][NextGallery]_vars

\* The naming of enrolled identities: the program started on one of
\* several directories, passes that enroll two identities, and
\* clear_known_faces on the Tk thread.
InitNames == \E dir \in Dirs : InitWith(dir)

NextNames ==
    \/ StartDetection(EnvNames)
    \/ WorkerLoop(EnvNames)
    \/ WorkerFaces(EnvNames)
    \/ WorkerEnroll(EnvNames)
    \/ HandleException
    \/ ClearKnownFaces(EnvNames)

SpecNames == InitNames /\ [][NextNames]_vars

\* Every operation together.
Init == InitGallery

Next ==
    \/ NextSession
    \/ NextGallery
    \/ UpdateGui

Spec == Init /\ [][Next]_vars

\* ================================================================ claims

\* C1: in a running session, once max_camera_errors consecutive frame
\* reads have failed (whatever the reopens did) and the worker is through
\* with the iteration of the last of them, the session is Idle: running
\* is false and the camera is released.
C1_StopsAfterMaxFailedReads ==
    (read_fails >= max_camera_errors /\ wpc \in {"top", "cam", "read", "dead"})
        => (~running /\ cap = "none")

\* Two sightings are near each other: their centres are less than
\* DISTANCE_THRESHOLD apart and their times less than SAVE_INTERVAL apart.
NearSightings(a, b) ==
    /\ (a[1] - b[1]) * (a[1] - b[1]) + (a[2] - b[2]) * (a[2] - b[2])
          < DISTANCE_THRESHOLD * DISTANCE_THRESHOLD
    /\ a[3] - b[3] < SAVE_INTERVAL
    /\ b[3] - a[3] < SAVE_INTERVAL

\* C2: no two sightings ever recorded (several detections of one frame
\* included) have centres within DISTANCE_THRESHOLD of each other and
\* times less than SAVE_INTERVAL apart.
C2_NoTwoSightingsNear ==
    \A i, j \in 1..Len(recorded) :
        i # j => ~NearSightings(recorded[i], recorded[j])

\* Two sightings of one frame are recorded, and a later one within the
\* distance threshold of one of them after the window has passed.
C2_Witness ==
    \E i, j, k \in 1..Len(recorded) :
        /\ i < j /\ j < k
        /\ recorded[i][3] = recorded[j][3]
        /\ (recorded[k][1] - recorded[i][1]) * (recorded[k][1] - recorded[i][1])
             + (recorded[k][2] - recorded[i][2]) * (recorded[k][2] - recorded[i][2])
             < DISTANCE_THRESHOLD * DISTANCE_THRESHOLD
        /\ recorded[k][3] - recorded[i][3] >= SAVE_INTERVAL

\* C3, as claimed: the frame queue never holds more than 5 frames, and a
\* frame produced while it holds 5 is stored, the oldest frame being
\* dropped.
C3_FullQueueDropsOldest ==
    [][EndFrame =>
          /\ Len(frame_queue') <= FRAME_QUEUE_MAXLEN
          /\ Len(frame_queue) = FRAME_QUEUE_MAXLEN
                => frame_queue' = Append(Tail(frame_queue), frame_count)]_vars

\* C3, amended: the frame queue never holds more than 5 frames; a frame
\* produced while it holds fewer is appended, and a frame produced while
\* it holds 5 is discarded, the queue staying as it is (the oldest frames
\* are kept); the producer's step is enabled whatever the queue holds.
C3_FullQueueDropsNewest ==
    [][/\ wpc = "end" => ENABLED EndFrame
       /\ EndFrame =>
            /\ Len(frame_queue') <= FRAME_QUEUE_MAXLEN
            /\ Len(frame_queue) < FRAME_QUEUE_MAXLEN
                  => frame_queue' = Append(frame_queue, frame_count)
            /\ Len(frame_queue) = FRAME_QUEUE_MAXLEN
                  => frame_queue' = frame_queue]_vars

\* The worker has ended a frame that it could not put in the full queue.
C3_Witness ==
    /\ wpc = "top"
    /\ Len(frame_queue) = FRAME_QUEUE_MAXLEN
    /\ frame_queue[FRAME_QUEUE_MAXLEN] < frame_count

\* C4, as claimed: a poll of a non-empty frame queue displays the newest
\* frame of the queue.
C4_DisplaysNewest ==
    [][(UpdateGui /\ frame_queue # <<>>)
          => displayed' = frame_queue[Len(frame_queue)]]_vars

\* C4, amended: a poll of a non-empty frame queue displays the oldest
\* frame of the queue and removes that frame alone; the newer frames stay
\* queued, in order, for the next polls.
C4_DisplaysOldest ==
    [][(UpdateGui /\ frame_queue # <<>>)
          => /\ displayed' = frame_queue[1]
             /\ frame_queue' = Tail(frame_queue)]_vars

\* A poll has taken the oldest of 5 queued frames: the 4 newer ones are
\* still queued.
C4_Witness ==
    /\ displayed > 0
    /\ Len(frame_queue) = FRAME_QUEUE_MAXLEN - 1
    /\ frame_queue[1] = displayed + 1
    /\ frame_queue[Len(frame_queue)] = frame_count

\* The crops i and j of a buffer of 3 form the matching pair: they score
\* above the clustering threshold against each other, the third crop
\* scores at most the threshold against both, and one of the two has the
\* larger area.
MatchingPair(buffer, i, j) ==
    /\ Len(buffer) = 3
    /\ i \in 1..3 /\ j \in 1..3 /\ i # j
    /\ Score(buffer[i].img, buffer[j].img) > CLUSTER_THRESHOLD
    /\ \A k \in 1..3 \ {i, j} :
         /\ Score(buffer[k].img, buffer[i].img) <= CLUSTER_THRESHOLD
         /\ Score(buffer[k].img, buffer[j].img) <= CLUSTER_THRESHOLD
    /\ buffer[i].h * buffer[i].w > buffer[j].h * buffer[j].w

\* The step that ends an enrollment pass normally: the last line of
\* process_unknown_faces.
PassReturns == EnrollNext /\ enroll_queue = <<>>

\* C5: an enrollment pass over a buffer of 3 crops, two of them a matching
\* pair and the third distinct, enrolls exactly one identity, whose
\* template is the pair's member of the larger area (at 80x80), wherever
\* it stands in the buffer, and leaves the buffer empty.
C5_EnrollsLargerOfPair ==
    [][\A i, j \in 1..3 :
          (PassReturns /\ MatchingPair(pass_buffer, i, j))
             => /\ known_faces' = Append(pass_gallery, Resize80(pass_buffer[i]))
                /\ unknown_faces_buffer' = <<>>]_vars

\* C6: a call of process_unknown_faces with fewer than BUFFER_SIZE crops
\* buffered returns at once: buffer, gallery and identity counter are as
\* they were.
C6_SmallBufferUntouched ==
    [][(EnrollTick /\ current_time - last_process_time > PROCESS_INTERVAL
             /\ Len(unknown_faces_buffer) < BUFFER_SIZE)
          => /\ wpc' = "face"
             /\ UNCHANGED <<unknown_faces_buffer, known_faces, known_face_names,
                            next_person_id, known_dir>>]_vars

\* The call has returned early on a buffer of 2 crops, all of earlier
\* frames: no pass has run yet, and the loop has stamped the call.
C6_Witness ==
    /\ wpc = "face"
    /\ Len(unknown_faces_buffer) = 2
    /\ Len(recorded) >= 2
    /\ \A i \in 1..Len(recorded) : recorded[i][3] < current_time
    /\ pass_buffer = <<>>
    /\ last_process_time = current_time
    /\ known_faces = LoadedFaces(known_dir)
    /\ next_person_id = 1

\* Where the detection thread is inside an enrollment pass.
PassPcs == {"enroll", "anp_id", "anp_write", "anp_face", "anp_name", "anp_gui"}

\* C7: when an enrollment pass that started with at least BUFFER_SIZE
\* crops ends, by returning or by add_new_person failing part-way, the
\* buffer is empty.
C7_BufferDrainedAfterPass ==
    [][(wpc \in PassPcs /\ wpc' \notin PassPcs /\ Len(pass_buffer) >= BUFFER_SIZE)
          => unknown_faces_buffer' = <<>>]_vars

\* C8: once clear_known_faces has returned, and until an identity is
\* enrolled, the gallery is empty and the next identity number is 1; the
\* first identity enrolled after it is Person_1.
C8_ClearResetsGallery ==
    /\ (cleared /\ cpc = "idle" /\ post_clear = <<>> /\ wpc \notin PassPcs)
          => /\ known_faces = <<>>
             /\ known_face_names = <<>>
             /\ next_person_id = 1
    /\ (cleared /\ post_clear # <<>>) => post_clear[1] = PersonName(1)

\* A list after a step is the list before, the list before with one entry
\* appended, or empty.
GrowsOrClears(before, after) ==
    \/ after = before
    \/ after = <<>>
    \/ Len(after) = Len(before) + 1 /\ SubSeq(after, 1, Len(before)) = before

\* C9: the gallery only grows by appends or is cleared, and the clear is
\* atomic for the matcher: whenever the matcher scans, the template list
\* and the name list have the same length, and the scan never indexes a
\* name that is not there.
C9_ClearAllAtomic ==
    [][/\ GrowsOrClears(known_faces, known_faces')
       /\ GrowsOrClears(known_face_names, known_face_names')
       /\ wpc = "match" => Len(known_faces) = Len(known_face_names)
       /\ FaceMatch => wpc' = "act"]_vars

\* C10: while a detection thread runs, every change of the gallery, the
\* identity counter, the sighting list and the unknown buffer is a step of
\* that thread.
C10_OnlyWorkerMutates ==
    [][(wpc # "dead"
          /\ <<known_faces, known_face_names, next_person_id, saved_faces,
               unknown_faces_buffer>>'
             # <<known_faces, known_face_names, next_person_id, saved_faces,
                  unknown_faces_buffer>>)
          => wpc' # wpc]_vars

\* The detection in hand is below MIN_RECOGNITION_SIZE in width or in
\* height.
SmallBox(d) == d.w < MIN_RECOGNITION_SIZE \/ d.h < MIN_RECOGNITION_SIZE

\* C11: the name the matcher gives a detection whose box is below
\* MIN_RECOGNITION_SIZE in width or in height is Unknown, whatever the
\* gallery holds and whatever the match threshold is: it is Unknown when
\* the detection is acted on.
C11_SmallBoxUnknown ==
    (wpc = "act" /\ SmallBox(Head(faces))) => name = Unknown

\* A box of a live shot of Alice, wide enough but not high enough, is
\* acted on with Alice in the gallery and the threshold below her score.
C11_Witness ==
    /\ wpc = "act"
    /\ Head(faces) = dW
    /\ known_face_names = <<Alice.name>>
    /\ MATCH_THRESHOLD = DEFAULT_MATCH_THRESHOLD
    /\ name = Unknown

\* The score of a detection against entry i of the gallery.
ScoreAgainst(d, i) == Score(d.img, known_faces[i].img)

\* The entries of the gallery of the highest score against a detection.
BestEntries(d) ==
    {i \in 1..Len(known_faces) :
        \A j \in 1..Len(known_faces) : ScoreAgainst(d, j) <= ScoreAgainst(d, i)}

\* C12: for a detection of at least MIN_RECOGNITION_SIZE in both
\* dimensions, the matcher's name is the name of the best-scoring entry of
\* the gallery (the earliest of them) when the highest score is strictly
\* above the MATCH_THRESHOLD in force at the call, and Unknown otherwise
\* (an empty gallery included).
C12_NameIffAboveThreshold ==
    [][/\ FaceMatch =>
            LET d == Head(faces)
                first == CHOOSE i \in BestEntries(d) : \A j \in BestEntries(d) : i <= j
            IN  name' = IF ScoreAgainst(d, first) > MATCH_THRESHOLD
                        THEN known_face_names[first] ELSE Unknown
       /\ (FaceBegin /\ faces # <<>> /\ ~SmallBox(Head(faces)) /\ known_faces = <<>>)
            => (wpc' = "act" /\ name' = Unknown)]_vars

\* The live shot of Alice, scoring 0.80, has been logged as Alice at
\* threshold 0.65, and is Unknown now that the threshold is 0.85.
C12_Witness ==
    /\ wpc = "act"
    /\ Head(faces) = dK
    /\ known_face_names = <<Alice.name>>
    /\ ScoreAgainst(dK, 1) = 80
    /\ attendance = <<Alice.name>>
    /\ MATCH_THRESHOLD = 85
    /\ name = Unknown

\* C13: a successful frame read sets the error counter to 0, and nothing
\* but a successful frame read or a start ever lowers it (so that at a
\* failed read it counts every failure since the last successful read).
C13_OnlyGoodReadResets ==
    [][/\ frame_count' # frame_count => camera_error_count' = 0
       /\ camera_error_count' < camera_error_count
            => (frame_count' # frame_count \/ StartThread)]_vars

\* The session is stopped and no detection thread is inside an iteration.
StoppedAndEnded(r, c, w) == ~r /\ c = "none" /\ w = "dead"

C15_FailedReopenNotCounted ==
    [][(CheckCamera(EnvSession) /\ cap = "failed" /\ read_fails > 0)
          => camera_error_count' <= camera_error_count]_vars

\* C16: start_detection called while running changes nothing.  Called
\* while the session is Idle (flag false, no detection thread alive): when
\* the camera opens, the call ends with the flag true, the configured
\* resolution and no other set on the opened handle, the error counter 0
\* and one detection thread started; when the camera does not open, the
\* call gives the error message and ends with the flag false, no handle
\* held and no detection thread started.
C16_StartFromIdleOnly ==
    [][/\ (StartBegin(EnvControl) /\ running)
            => UNCHANGED <<sessionVars, status_queue, current_resolution, wpc, opc>>
       /\ (StartThread /\ from_idle)
            => /\ running' /\ cap' = "open"
               /\ cap_configs' = {current_resolution}
               /\ camera_error_count' = 0
               /\ wpc = "dead" /\ wpc' = "top" /\ opc' = "dead"
       /\ (StartCheck /\ from_idle)
            => /\ cap # "none"
               /\ cap = "failed" => (cpc' = "start_release"
                                      /\ "open_error" \in status_queue')
               /\ cap = "open" => cpc' = "start_set"
       /\ (StartSet /\ from_idle) => cpc' = "start_thread"
       /\ (StopRelease /\ cpc = "start_release" /\ from_idle)
            => /\ ~running' /\ cap' = "none"
               /\ "open_error" \in status_queue'
               /\ wpc' = "dead" /\ opc' = "dead"
               /\ cpc' = StartReturn]_vars

\* Both ends of start_detection have been seen from Idle: a start has
\* failed to open the camera and said so, and a later one has started a
\* detection thread on a configured handle; start is now called again,
\* while running.
C16_Witness ==
    /\ "open_error" \in status_queue
    /\ running /\ from_idle /\ cpc = "idle"
    /\ cap = "open" /\ cap_configs = {current_resolution}
    /\ wpc = "top" /\ opc = "dead"
    /\ ENABLED (StartBegin(EnvControl) /\ running)

\* What stop_detection may change besides the place of the Tk thread.
stopVars == <<sessionVars, status_queue, tkLocals, threadVars, wpc, queueVars,
              trackVars, galleryVars, enrollVars, clockVars>>

\* C17: the stop button can be pressed in any state of the session (the
\* Tk thread being between two callbacks); stop_detection ends with the
\* flag false and no handle held; and called on a session it has already
\* stopped (flag false, no handle) it changes nothing.
C17_StopIdempotent ==
    [][/\ cpc = "idle" => ENABLED StopDetection
       /\ (StopRelease /\ cpc = "stop_release")
            => (~running' /\ cap' = "none" /\ cpc' = "idle")
       /\ ((StopDetection \/ (StopRelease /\ cpc = "stop_release"))
             /\ ~running /\ cap = "none")
            => UNCHANGED stopVars]_vars

\* stop_detection, called on a session it has already stopped while the
\* detection thread of that session is still inside its iteration, is at
\* its last lines.
C17_Witness ==
    /\ cpc = "stop_release"
    /\ ~running /\ cap = "none"
    /\ wpc \notin {"dead", "top"}
    /\ opc = "dead"

\* C18: whatever the interleaving of start, stop, change_resolution and
\* the detection threads' iterations, the handle held in self.cap has had
\* at most one resolution set on it since it was opened.
C18_OneConfigPerHandle ==
    Cardinality(cap_configs) <= 1

\* C19: at most one detection thread is alive once the thread of a later
\* session runs: while a thread is inside an iteration, no other thread
\* is waiting to run, or running, iterations of the loop.
C19_OneWorker ==
    (running /\ wpc \notin {"dead", "top"}) => opc = "dead"

\* C20: with the flag false a detection thread that comes to the loop's
\* test ends there, beginning no new iteration; and once the flag is
\* false every detection thread has ended in the end, unless a start sets
\* the flag again.
C20_CancelStopsWorker ==
    /\ [][/\ (wpc = "top" /\ ~running /\ wpc' # wpc) => wpc' = "dead"
          /\ (opc = "top" /\ ~running /\ opc' # opc) => opc' = "dead"]_vars
    /\ (~running) ~> (running \/ (wpc = "dead" /\ opc = "dead"))

\* stop_detection has set the flag false while a detection thread is
\* inside an iteration, and another is between two iterations.
C20_Witness ==
    /\ ~running
    /\ cpc = "stop_release"
    /\ wpc \in {"read", "reconnect", "tick"}
    /\ opc = "top"

\* C21: an attendance row is appended only by the step that acts on a
\* detection, and then exactly one row, of the detection's name; the
\* detection has passed the dedup gate and its name is not Unknown.  A
\* detection acted on that has passed the gate with a known name gets its
\* row (unless writing the row failed, which is printed); one that is
\* Unknown or suppressed by the gate gets none.
C21_RowIffActedAndKnown ==
    [][/\ attendance' # attendance
            => /\ wpc = "act" /\ wpc' = "face"
               /\ save_face /\ name # Unknown
               /\ attendance' = Append(attendance, name)
       /\ (wpc = "act" /\ wpc' = "face" /\ save_face /\ name # Unknown
             /\ log_errors' = log_errors)
            => attendance' = Append(attendance, name)]_vars

\* Alice has been logged once; a later detection recognised as Alice was
\* suppressed by the gate and has been passed over, and an Unknown
\* detection has been buffered: the one row is still the only one.
C21_Witness ==
    /\ wpc = "face" /\ faces = <<>>
    /\ name = Alice.name /\ ~save_face
    /\ attendance = <<Alice.name>>
    /\ Len(unknown_faces_buffer) >= 1
    /\ log_errors = 0

\* C22: the unknown buffer grows only by the step that acts on a
\* detection, by that detection's crop, the detection having passed the
\* dedup gate with the name Unknown; every such detection acted on is
\* buffered, and a detection suppressed by the gate or recognised as a
\* known identity leaves the buffer as it is.
C22_BufferedIffActedAndUnknown ==
    [][/\ Len(unknown_faces_buffer') > Len(unknown_faces_buffer)
            => /\ wpc = "act" /\ wpc' = "face"
               /\ save_face /\ name = Unknown
       /\ (wpc = "act" /\ wpc' = "face")
            => unknown_faces_buffer' =
                  IF save_face /\ name = Unknown
                  THEN Append(unknown_faces_buffer, Crop(Head(faces)))
                  ELSE unknown_faces_buffer]_vars

\* Two Unknown detections of one frame have been buffered, Alice has been
\* logged and not buffered, and an Unknown detection near one of the two,
\* suppressed by the gate, has been passed over.
C22_Witness ==
    /\ wpc = "face" /\ faces = <<>>
    /\ name = Unknown /\ ~save_face
    /\ unknown_faces_buffer = <<Crop(dA), Crop(dB)>>
    /\ attendance = <<Alice.name>>

\* C23: when the frame loop calls process_unknown_faces, more than
\* PROCESS_INTERVAL has passed since its last call of it, whether that
\* call returned or raised.
C23_TickOncePerInterval ==
    [][(EnrollTick /\ current_time - last_process_time > PROCESS_INTERVAL
          /\ last_call_time >= 0)
          => current_time - last_call_time > PROCESS_INTERVAL]_vars

\* C24: when the face locator or an overlay detector has raised on a
\* frame, the handling of it leaves the error counter and the flag as they
\* are, puts the frame in the frame queue (when the queue is not full),
\* and the loop goes on to its next iteration.
C24_DetectorFailureIsolated ==
    [][(HandleException /\ raised \in {"locator", "overlay"})
          => /\ camera_error_count' <= camera_error_count
             /\ running' = running
             /\ frame_queue' = PutFrame(frame_queue, frame_count)
             /\ wpc' = "top"]_vars

\* The status messages that report an error.
ErrorEvents ==
    {"open_error", "reconnecting", "camera_error", "loop_error", "too_many_errors"}

\* C25: the step at which an error of a running session happens leaves an
\* error message on the status queue: the failed open of a start, a failed
\* reopen at the top of an iteration, a failed frame read, the failed
\* reopen after it, and an exception of the iteration (a detector failure
\* among them).
C25_ErrorsSurface ==
    [][/\ (StartCheck /\ cap = "failed") => "open_error" \in status_queue'
       /\ (CheckCamera(EnvSession) /\ camera_error_count' > camera_error_count)
            => "reconnecting" \in status_queue'
       /\ (ReadFrame(EnvSession) /\ camera_error_count' > camera_error_count)
            => status_queue' \cap ErrorEvents # {}
       /\ (Reconnect(EnvSession) /\ cap' = "failed")
            => status_queue' \cap ErrorEvents # {}
       /\ HandleException => "loop_error" \in status_queue']_vars

\* The picture of the identity being added is in the directory.
PictureWritten == \E i \in 1..Len(known_dir) : known_dir[i].name = new_name

NearAndRecent(c, t, s) ==
    /\ (c[1] - s[1]) * (c[1] - s[1]) + (c[2] - s[2]) * (c[2] - s[2])
          < DISTANCE_THRESHOLD * DISTANCE_THRESHOLD
    /\ t - s[3] < SAVE_INTERVAL

\* C28: the dedup decision for a detection of centre c at the frame's
\* time is "suppress" exactly when some sighting of the list is at a
\* distance below DISTANCE_THRESHOLD of c and less than SAVE_INTERVAL old;
\* a detection acted on with the decision "act" appends the one sighting
\* (c, time) to the list, and one acted on with "suppress" appends none.
C28_DedupDecision ==
    [][/\ (FaceBegin /\ faces # <<>>)
            => save_face' =
                 ~ \E i \in 1..Len(saved_faces) :
                      NearAndRecent(Center(Head(faces)), current_time, saved_faces[i])
       /\ (wpc = "act" /\ wpc' = "face")
            => saved_faces' =
                 IF save_face
                 THEN Append(saved_faces, <<Center(Head(faces))[1],
                                           Center(Head(faces))[2], current_time>>)
                 ELSE saved_faces]_vars

\* Two detections of one frame, exactly DISTANCE_THRESHOLD apart, have
\* both been acted on, and a detection of a later frame within the
\* threshold of them and inside the window has been suppressed: the list
\* holds the two sightings.
C28_Witness ==
    /\ wpc = "face" /\ faces = <<>> /\ ~save_face
    /\ Len(saved_faces) = 2 /\ Len(recorded) = 2
    /\ <<saved_faces[1][1], saved_faces[1][2]>> = Center(dA)
    /\ <<saved_faces[2][1], saved_faces[2][2]>> = Center(dB)
    /\ saved_faces[1][3] = saved_faces[2][3]
    /\ current_time > saved_faces[1][3]
    /\ current_time - saved_faces[1][3] < SAVE_INTERVAL

\* The sightings of a list that are younger than SAVE_INTERVAL at the
\* frame's time, in the list's order.
YoungerThanInterval(sightings) ==
    SelectSeq(sightings, LAMBDA e : current_time - e[3] < SAVE_INTERVAL)

\* C29, as claimed: when a frame has been processed to its end, the
\* sighting list holds exactly the sightings recorded so far whose age is
\* less than SAVE_INTERVAL.
C29_ListIsRecordedYounger ==
    [][EndFrame => saved_faces' = YoungerThanInterval(recorded)]_vars

\* C29, amended: when a frame has been processed to its end, the sighting
\* list holds exactly the sightings it held whose age is less than the
\* SAVE_INTERVAL then in force (every older one is removed, none younger
\* is); as long as the slider has not raised SAVE_INTERVAL, these are
\* exactly the sightings recorded so far whose age is less than it.
C29_PruneExact ==
    [][EndFrame
          => /\ saved_faces' = YoungerThanInterval(saved_faces)
             /\ ~interval_raised => saved_faces' = YoungerThanInterval(recorded)]_vars

\* The end of a frame has removed a sighting exactly SAVE_INTERVAL old
\* and kept a younger one, the slider not having been moved.
C29_Witness ==
    /\ wpc = "top" /\ frame_count >= 2
    /\ SAVE_INTERVAL = DEFAULT_SAVE_INTERVAL /\ ~interval_raised
    /\ Len(recorded) >= 2 /\ Len(saved_faces) = Len(recorded) - 1
    /\ current_time - recorded[1][3] = SAVE_INTERVAL
    /\ saved_faces = Tail(recorded)
    /\ "loop_error" \notin status_queue

\* C30: when two or more entries of the gallery have the highest score
\* against a crop and that score is above the match threshold, the name
\* the matcher gives is the name of the earliest of them in gallery order,
\* not that of a later one.
C30_TieEarliestWins ==
    [][FaceMatch =>
          LET d == Head(faces)
              tied == BestEntries(d)
          IN  (Cardinality(tied) >= 2
                 /\ \A i \in tied : ScoreAgainst(d, i) > MATCH_THRESHOLD)
                => \E i \in tied :
                      /\ \A j \in tied : i <= j
                      /\ name' = known_face_names[i]
                      /\ \A j \in tied \ {i} :
                            known_face_names[j] # known_face_names[i]
                               => name' # known_face_names[j]]_vars

\* Alice and Bob, loaded in that order, both score 0.80 against the live
\* shot, above the threshold 0.65: the matcher has named it Alice.
C30_Witness ==
    /\ wpc = "act" /\ Head(faces) = dK
    /\ known_face_names = <<Alice.name, Bob.name>>
    /\ ScoreAgainst(dK, 1) = ScoreAgainst(dK, 2)
    /\ ScoreAgainst(dK, 1) > MATCH_THRESHOLD
    /\ name = Alice.name

\* The crops of a buffer that start a cluster: a crop starts one exactly
\* when it scores at most the clustering threshold against every earlier
\* crop that started one.
StartsCluster(buffer) ==
    LET starts[i \in 1..Len(buffer)] ==
            \A j \in 1..(i - 1) :
               starts[j] => Score(buffer[j].img, buffer[i].img) <= CLUSTER_THRESHOLD
    IN  starts

\* The cluster crop i belongs to, named by the position of its first
\* member: the earliest cluster whose first member scores above the
\* threshold against the crop, or its own.
ClusterOf(buffer, i) ==
    LET fits == {j \in 1..i :
                    /\ StartsCluster(buffer)[j]
                    /\ j = i \/ Score(buffer[j].img, buffer[i].img) > CLUSTER_THRESHOLD}
    IN  CHOOSE j \in fits : \A k \in fits : j <= k

\* The clusters of at least 2 members, and those of one.
PairedClusters(buffer) ==
    {j \in 1..Len(buffer) :
        Cardinality({i \in 1..Len(buffer) : ClusterOf(buffer, i) = j}) >= 2}

SingletonClusters(buffer) ==
    {j \in 1..Len(buffer) :
        Cardinality({i \in 1..Len(buffer) : ClusterOf(buffer, i) = j}) = 1}

\* C31: an enrollment pass clusters the buffered crops first-fit in buffer
\* order against the first member of each cluster, with the threshold
\* 0.65: the pass queues one face per cluster of at least 2 members and
\* none for a singleton, and when it returns the gallery has grown by
\* exactly the number of clusters of at least 2 members, a name for every
\* template.
C31_FirstFitOnePerCluster ==
    [][/\ (EnrollTick /\ wpc' = "enroll")
            => Len(enroll_queue') = Cardinality(PairedClusters(unknown_faces_buffer))
       /\ PassReturns
            => /\ Len(known_faces') =
                     Len(pass_gallery) + Cardinality(PairedClusters(pass_buffer))
               /\ Len(known_face_names') = Len(known_faces')]_vars

\* A pass has returned over a buffer that held two clusters of 2 crops or
\* a cluster of 2 and a singleton, and the gallery has grown by the
\* number of the clusters of 2.
C31_Witness ==
    /\ wpc = "face"
    /\ unknown_faces_buffer = <<>>
    /\ last_process_time = current_time
    /\ Len(pass_buffer) >= BUFFER_SIZE
    /\ PairedClusters(pass_buffer) # {}
    /\ SingletonClusters(pass_buffer) # {}
    /\ Len(known_faces) = Len(pass_gallery) + Cardinality(PairedClusters(pass_buffer))

\* The numbers of the Person_ names of a list.
PersonNumbers(names) ==
    {names[i].num : i \in {j \in 1..Len(names) : names[j].prefix = "Person"}}

\* 1 + the highest of these numbers, 1 when there is none.
FirstNumber(names) ==
    IF PersonNumbers(names) = {} THEN 1
    ELSE 1 + CHOOSE n \in PersonNumbers(names) : \A m \in PersonNumbers(names) : m <= n

\* C32: the names add_new_person makes are Person_<k>, k starting at 1 +
\* the highest number of the loaded Person_ names (1 when there is none,
\* and after a clear) and going up by exactly 1 with every name made;
\* hence from construction to a clear, and from one clear to the next, no
\* two names made are the same and none carries the number of a loaded
\* Person_ name.
C32_NamesCountUp ==
    /\ \A i \in 1..Len(generated) :
          generated[i] = PersonName(FirstNumber(loaded) + i - 1)
    /\ next_person_id = FirstNumber(loaded) + Len(generated)
    /\ \A i, j \in 1..Len(generated) : i # j => generated[i] # generated[j]
    /\ \A i \in 1..Len(generated) : generated[i].num \notin PersonNumbers(loaded)

\* A pass has enrolled two identities on a gallery loaded with Person_5
\* and Person_2: both names are in the gallery after the loaded ones.
C32_Witness ==
    /\ PersonNumbers(loaded) = {2, 5}
    /\ Len(generated) = 2
    /\ Len(known_face_names) = Len(loaded) + 2
    /\ known_face_names[Len(loaded) + 1] = generated[1]
    /\ known_face_names[Len(loaded) + 2] = generated[2]

\* The steps of the loop over a frame's detections.
FacePcs == {"face", "match", "act"}

\* C33 as stated: the enrollment pass of an iteration comes after the
\* frame's detections, so when the periodic check of lines 838-841 runs
\* every detection of the frame has been through dedup, match and offer.
C33_OffersThenTick ==
    [][EnrollTick => faces = <<>>]_vars

\* C33, amended: an iteration that read a frame resets the error counter
\* and runs the locator, then makes the periodic check and, when due, the
\* enrollment pass, and only after that takes the frame's detections
\* through dedup, match and offer: at the check no detection of the frame
\* has been acted on, a crop enters the buffer only in the loop over the
\* detections, and from that loop the iteration never goes back to the
\* check.
C33_TickThenOffers ==
    [][/\ (wpc = "read" /\ wpc' \notin {"read", "exc", "reconnect", "dead"})
            => (wpc' = "tick" /\ camera_error_count' = 0)
       /\ (wpc' = "tick") => wpc \in {"read", "tick"}
       /\ (wpc = "tick")
            => /\ \A i \in 1..Len(recorded) : recorded[i][3] < current_time
               /\ wpc' \in {"tick", "face", "enroll"}
       /\ Len(unknown_faces_buffer') > Len(unknown_faces_buffer)
            => (wpc = "act" /\ wpc' = "face")
       /\ (wpc \in FacePcs) => wpc' \in FacePcs \cup {"exc", "end"}]_vars

\* The periodic check of this frame has run a pass over the crops of
\* earlier frames, and a crop of this frame has then been buffered.
C33_Witness ==
    /\ wpc = "face"
    /\ last_call_time = current_time
    /\ last_process_time = current_time
    /\ Len(pass_buffer) >= BUFFER_SIZE
    /\ unknown_faces_buffer # <<>>
    /\ \E i \in 1..Len(recorded) : recorded[i][3] = current_time

\* C34: whatever the interleaving of the worker's appends and update_gui's
\* pops, the frame queue holds between 0 and 5 frames, and a poll of
\* update_gui that finds the queue empty displays nothing new, leaves the
\* queue empty and completes (a poll can run in every state).
C34_QueueBoundedPollSafe ==
    /\ [](Len(frame_queue) \in 0..FRAME_QUEUE_MAXLEN)
    /\ [](ENABLED UpdateGui)
    /\ [][(UpdateGui /\ frame_queue = <<>>)
             => (displayed' = displayed /\ frame_queue' = <<>>)]_vars

\* Polls have emptied the queue, the last frame produced being on
\* display, after the worker had produced more frames than the queue
\* holds.
C34_Witness ==
    /\ frame_queue = <<>>
    /\ frame_count > FRAME_QUEUE_MAXLEN
    /\ displayed = frame_count

\* C35: no camera handle is leaked by a stop: whenever the Tk thread is
\* out of its callback with the run flag false and every detection thread
\* has ended, whatever the interleaving of stop_detection with the
\* thread's iteration and its reconnects, the session holds no open
\* camera handle.
C35_StopLeaksNoHandle ==
    (cpc = "idle" /\ ~running /\ wpc = "dead" /\ opc = "dead") => cap # "open"

\* C36: a detection that clears the dedup gate and is below
\* MIN_RECOGNITION_SIZE in width or in height, or is of any size while the
\* gallery is empty, is acted on with the name Unknown and its crop is
\* appended to the unknown buffer (where the next enrollment pass clusters
\* it with the other crops).
C36_SmallOrNoGalleryBuffered ==
    [][(wpc = "act" /\ wpc' = "face" /\ save_face
          /\ (SmallBox(Head(faces)) \/ known_faces = <<>>))
          => /\ name = Unknown
             /\ unknown_faces_buffer' =
                   Append(unknown_faces_buffer, Crop(Head(faces)))]_vars

\* A pass has returned in which the crop of the small box dS was the first
\* member of a cluster of at least 2 crops: the identity enrolled for that
\* cluster has the small crop as its template.
C36_Witness ==
    /\ wpc = "face"
    /\ unknown_faces_buffer = <<>>
    /\ \E i \in PairedClusters(pass_buffer) : pass_buffer[i] = Crop(dS)
    /\ Len(known_faces) = Len(pass_gallery) + Cardinality(PairedClusters(pass_buffer))
    /\ \E k \in 1..Len(known_faces) :
          k > Len(pass_gallery) /\ known_faces[k] = Resize80(Crop(dS))

\* C37: the error counter is always between 0 and max_camera_errors + 1,
\* and no detection thread is inside a loop iteration, at the test or
\* reopen of the camera or at the read, while the counter is above
\* max_camera_errors.
C37_CounterBounded ==
    /\ camera_error_count \in 0..(max_camera_errors + 1)
    /\ (wpc \in {"cam", "read"}) => camera_error_count <= max_camera_errors

====
